---- MODULE Spec2Model ----
(***************************************************************************)
(* State-machine model of the liste_rappel watcher: Watcher.run and the    *)
(* polling pass (_run_once, _handle_entries, _maybe_notify) of watcher.py, *)
(* the State operations of state.py and parse_entries of parser.py.        *)
(*                                                                         *)
(* Time is counted in minutes: datetime.utcnow() reads the variable now.    *)
(* Time passes in the blocking calls: the sleep and the fetches between    *)
(* two passes (any amount, added where the pass starts) and notifier.send  *)
(* (under a minute: its timeout is 15 s).                                  *)
(***************************************************************************)
EXTENDS Integers, Sequences, FiniteSets, TLC

(* ------------------------------ bounds -------------------------------- *)

\* Passes of the while-True loop of Watcher.run that the model follows.
MaxPasses == 2

\* Largest clock value (minutes since the start of the process).
MaxTime == 2

\* Times the process is started again on the state file it left.
MaxRestarts == 1

(* --------------------------- configuration ---------------------------- *)

\* WatchConfig.cooldown_minutes (COOLDOWN_MINUTES).
cooldown_minutes == 1

\* WatchConfig.top_threshold (TOP_THRESHOLD).
top_threshold == 1

\* WatchConfig.warn_threshold (WARN_THRESHOLD).
warn_threshold == 3

\* WatchConfig.target_ids (TARGET_IDS), as written in the settings file.
target_ids == <<"T1", "t2">>

\* The WatchConfig values of the model (LIST_URLS, LIST_LABELS, PAGE_LIMIT): one
\* list of up to four pages; two lists of up to two pages under one label; two
\* lists of one page of which only the first is given a label.
WatchConfigs ==
    { [list_urls |-> <<"u0">>, list_labels |-> <<"A">>, page_limit |-> 4],
      [list_urls |-> <<"u0", "u1">>, list_labels |-> <<"A", "A">>, page_limit |-> 2],
      [list_urls |-> <<"u0", "u1">>, list_labels |-> <<"A">>, page_limit |-> 1] }

\* Python's None, for Optional[str] fields.
None == "<None>"

\* DiscordConfig values: absent (no DISCORD_WEBHOOK), the three templates set,
\* or DISCORD_TEMPLATE_UPDATE set to the empty string.  Optional[DiscordConfig]
\* is a sequence of length 0 (None) or 1.
DiscordConfigs ==
    { <<>>,
      <<[top_template |-> "top", warn_template |-> "warn", update_template |-> "update"]>>,
      <<[top_template |-> "top", warn_template |-> "warn", update_template |-> ""]>> }

(* ------------------------------ helpers ------------------------------- *)

Range(s) == {s[i] : i \in DOMAIN s}

\* dict[k] = v
Put(f, k, v) == [x \in (DOMAIN f) \cup {k} |-> IF x = k THEN v ELSE f[x]]

\* The empty dict.
EmptyMap == [x \in {} |-> None]

\* str.upper() on the identifiers of the model.
Upper(s) == CASE s = "t1" -> "T1" [] s = "t2" -> "T2" [] OTHER -> s

\* str(x) inside an f-string.
Str(x) == IF x = None THEN "None" ELSE x

(* --------------------------- pages and lines -------------------------- *)

\* A line of extracted text, given by what the regular expressions of
\* parser.py find in it: the matricules in order, the rank of _extract_rank
\* (9999 when the line has no rank), the shift of _extract_shift and the date of
\* _extract_date.
L1 == [raw |-> "3 T1 s1 d1", matricules |-> <<"T1">>, rank |-> 3, shift |-> "s1", date |-> "d1"]
L2 == [raw |-> "2 T1 s2 d1", matricules |-> <<"T1">>, rank |-> 2, shift |-> "s2", date |-> "d1"]
L3 == [raw |-> "2 T1 T2 s1 d1", matricules |-> <<"T1", "T2">>, rank |-> 2, shift |-> "s1", date |-> "d1"]
L4 == [raw |-> "1 X9 T2 d1", matricules |-> <<"X9", "T2">>, rank |-> 1, shift |-> None, date |-> "d1"]
L5 == [raw |-> "T2", matricules |-> <<"T2">>, rank |-> 9999, shift |-> None, date |-> None]
L6 == [raw |-> "2 T1 s1 d1", matricules |-> <<"T1">>, rank |-> 2, shift |-> "s1", date |-> "d1"]

\* The page payloads the server can answer with, and the lines extract_lines
\* obtains from each.
ContentIds == {"c1", "c2", "c3"}

extract_lines(content) ==
    CASE content = "c1" -> <<L5, L1>>
      [] content = "c2" -> <<L2, L6>>
      [] content = "c3" -> <<L3, L4>>

\* hashlib.sha256(content).hexdigest(): injective on the payloads.
sha256(content) == <<"sha256", content>>

(* ------------------------------ parser.py ----------------------------- *)

RECURSIVE MatchedEntries(_, _, _, _)
\* The inner loop of parse_entries: one Entry per matricule of the line that
\* is a target.
MatchedEntries(line, matches, label, page) ==
    IF matches = <<>> THEN <<>>
    ELSE LET m == Head(matches)
             rest == MatchedEntries(line, Tail(matches), label, page)
         IN  IF Upper(m) \in {Upper(t) : t \in Range(target_ids)}
             THEN <<[label |-> label, page |-> page, rank |-> line.rank,
                     target |-> Upper(m), shift |-> line.shift,
                     date |-> line.date, raw |-> line.raw]>> \o rest
             ELSE rest

RECURSIVE parse_entries(_, _, _)
parse_entries(lines, label, page) ==
    IF lines = <<>> THEN <<>>
    ELSE MatchedEntries(Head(lines), Head(lines).matricules, label, page)
         \o parse_entries(Tail(lines), label, page)

(* ------------------------------ state.py ------------------------------ *)

\* State(): no entries, no alerts.
EmptyState == [entries |-> EmptyMap, alerts |-> EmptyMap]

\* State.best_previous: Optional[EntryState], a sequence of length 0 or 1.
best_previous(st, label, target) ==
    IF label \in DOMAIN st.entries /\ target \in DOMAIN st.entries[label]
    THEN <<st.entries[label][target]>>
    ELSE <<>>

\* State.record_entry, with datetime.utcnow() read as t.
record_entry(st, entry, t) ==
    LET label_entries == IF entry.label \in DOMAIN st.entries
                         THEN st.entries[entry.label] ELSE EmptyMap
        es == [rank |-> entry.rank, page |-> entry.page, shift |-> entry.shift,
               date |-> entry.date, raw |-> entry.raw, updated_at |-> t]
    IN  [st EXCEPT !.entries = Put(st.entries, entry.label,
                                   Put(label_entries, entry.target, es))]

\* State.should_alert with >= replaced by >.
should_alert_strict(st, key, cooldown, t) ==
    IF key \notin DOMAIN st.alerts THEN TRUE
    ELSE t - st.alerts[key].sent_at > cooldown

\* State.should_alert, with datetime.utcnow() read as t.
should_alert(st, key, cooldown, t) ==
    IF key \notin DOMAIN st.alerts THEN TRUE
    ELSE t - st.alerts[key].sent_at >= cooldown

\* State.record_alert losing the record.
record_alert_lost(st, key, t) == st

\* State.record_alert, with datetime.utcnow() read as t.
record_alert(st, key, t) ==
    [st EXCEPT !.alerts = Put(st.alerts, key, [sent_at |-> t])]

\* save_state: the document written to the state file holds every entry's
\* __dict__ and every alert's __dict__.
save_state(st) == [entries |-> st.entries, alerts |-> st.alerts]

\* The state files load_state can meet that save_state did not write whole:
\* text json.load cannot parse (an empty or truncated document), bytes that
\* are not UTF-8, and JSON text whose value is not an object.
BrokenFiles ==
    { <<[broken |-> "not JSON"]>>,
      <<[broken |-> "not UTF-8"]>>,
      <<[broken |-> "not an object"]>> }

\* The state file f (<<>> when absent) holds a JSON object.
IsDocument(f) == f # <<>> /\ "broken" \notin DOMAIN f[1]

\* The exception load_state raises on the state file f, "none" if it returns:
\* only json.JSONDecodeError is caught; the UnicodeDecodeError of the read
\* and the AttributeError of payload.get are not.
LoadError(f) ==
    IF f = <<>> \/ IsDocument(f) THEN "none"
    ELSE CASE f[1].broken = "not JSON" -> "none"
           [] f[1].broken = "not UTF-8" -> "UnicodeDecodeError"
           [] f[1].broken = "not an object" -> "AttributeError"

\* values.get(name, default)
Get(values, name, default) == IF name \in DOMAIN values THEN values[name] ELSE default

\* The EntryState that load_state builds without the page of the document.
LoadEntryNoPage(values, t) ==
    [rank |-> Get(values, "rank", 9999), page |-> 9999,
     shift |-> Get(values, "shift", None), date |-> Get(values, "date", None),
     raw |-> Get(values, "raw", ""), updated_at |-> Get(values, "updated_at", t)]

\* The EntryState that load_state builds from the values of one target.
LoadEntry(values, t) ==
    [rank |-> Get(values, "rank", 9999), page |-> Get(values, "page", 9999),
     shift |-> Get(values, "shift", None), date |-> Get(values, "date", None),
     raw |-> Get(values, "raw", ""), updated_at |-> Get(values, "updated_at", t)]

\* load_state when it returns, with datetime.utcnow() read as t: State() for
\* a missing or unparsable file, else the State built from the document.
load_state(f, t) ==
    IF ~IsDocument(f) THEN EmptyState
    ELSE LET entries_payload == Get(f[1], "entries", EmptyMap)
             alerts_payload == Get(f[1], "alerts", EmptyMap)
         IN  [entries |-> [label \in DOMAIN entries_payload |->
                             [target \in DOMAIN entries_payload[label] |->
                                LoadEntry(entries_payload[label][target], t)]],
              alerts |-> [akey \in DOMAIN alerts_payload |->
                            [sent_at |-> Get(alerts_payload[akey], "sent_at", t)]]]

(* ------------------------------ config.py ----------------------------- *)

\* WatchConfig.paired_labels: the label of the list at index i (1-based here).
\* enumerate() counts from 0, so the default label of list i is "Liste <i-1>".
paired_label(labels, i) ==
    IF i <= Len(labels) THEN labels[i]
    ELSE CASE i = 1 -> "Liste 0" [] i = 2 -> "Liste 1" [] OTHER -> "Liste n"

(* ----------------------------- watcher.py ----------------------------- *)

VARIABLES
    watch,         \* config.watch: list_urls, list_labels, page_limit
    discord,       \* config.discord (Optional)
    once,          \* Watcher.once
    pc,            \* position of Watcher.run
    exc,           \* what ended the run: "none", "login", "fetch", "notify", "interrupt",
                   \* or the exception load_state raised in Watcher.__init__
    passes,        \* passes started
    now,           \* last value read from the clock
    state,         \* Watcher.state
    file,          \* the state file: <<>> when absent, else <<document>>
    li,            \* index of the list being paginated (1-based)
    page,          \* page of _run_once
    seen_pages,    \* seen_pages of _run_once: label -> sequence of hashes
    new_entries,   \* new_entries of _run_once
    best,          \* best.items() of _handle_entries, in insertion order
    k,             \* index in best of the entry under evaluation
    previous_state, \* previous_state of _handle_entries (Optional)
    key,           \* key of _maybe_notify
    fetched,       \* history: per list, the payloads fetched in this pass, by page
    sent,          \* history: the successful Notifier.send calls, [key, at]
    left,          \* history: entries of best not yet evaluated when a send failed
    lost,          \* history: the entry, the key and the time of the send that
                   \* failed (Optional), in this process or in the one before
    discarded,     \* history: new_entries when the fetch that ended the run raised
    silent,        \* history: State.entries as left by the process before, when
                   \* that process had no notifier and this one has (Optional)
    restarts       \* times the process was started again

\* The variables of WatcherSession.fetch (http.py), one call of it.
VARIABLES
    max_retries,   \* config.watch.max_retries
    attempt,       \* attempt of the for loop
    backoff,       \* backoff, in seconds
    fpc,           \* position of fetch: "attempt", "returned", "raised"
    responses,     \* history: the outcome of each HTTP attempt, in order
    raised         \* the exception that left fetch, when fpc = "raised"

fetch_vars == <<max_retries, attempt, backoff, fpc, responses, raised>>

\* The variables of save_state (state.py), the calls of it on one state file.
VARIABLES
    files,         \* the directory of the state file: path -> <<>> when absent,
                   \* else <<text>>, the text being the chunks written so far
    spc,           \* position of save_state: "idle", "open", "dump", "replace"
    saving,        \* the State being saved
    held,          \* history: what the state file held when save_state was called
    saves          \* calls of save_state that are over

save_vars == <<files, spc, saving, held, saves>>

\* The variables of the timing of Watcher.run's loop, in seconds.
VARIABLES
    sleep_seconds, \* config.watch.sleep_seconds
    clock,         \* datetime.utcnow(), in seconds since the process started
    start_ts,      \* start_ts of the loop
    duration,      \* duration of the loop
    sleep_time,    \* sleep_time of the loop
    tpc,           \* position in the loop: "stamp", "pass", "measure", "once",
                   \* "sleep_time", "sleep", "exit"
    starts,        \* history: start_ts of each pass
    durations,     \* history: duration of each pass
    sleeps         \* history: the argument of each time.sleep

timing_vars == <<sleep_seconds, clock, start_ts, duration, sleep_time, tpc, starts,
                 durations, sleeps>>

\* The variables of the components a step of Watcher.run does not touch.
others == <<fetch_vars, save_vars, timing_vars>>

watcher_vars == <<watch, discord, once, pc, exc, passes, now, state, file, li, page,
                  seen_pages, new_entries, best, k, previous_state, key, fetched,
                  sent, left, lost, discarded, silent, restarts>>

vars == <<watcher_vars, others>>

config == <<watch, discord, once>>
locals == <<li, page, seen_pages, new_entries, best, k, previous_state, key, fetched>>

NLists == Len(watch.list_urls)

\* The values of the clock once the sleep and the fetches of a pass are over.
Clock == now .. MaxTime

\* The minutes a notifier.send can take: requests.post(..., timeout=15).
SendDelays == {0, 1}

\* The clock d minutes later.
After(d) == IF now + d <= MaxTime THEN now + d ELSE MaxTime

\* The locals of _run_once, _handle_entries and _maybe_notify before the pass
\* starts and after their frames are left.
NoLocals ==
    /\ li' = 1
    /\ page' = 0
    /\ seen_pages' = EmptyMap
    /\ new_entries' = <<>>
    /\ best' = <<>>
    /\ k' = 1
    /\ previous_state' = <<>>
    /\ key' = <<>>
    /\ fetched' = [i \in 1..NLists |-> <<>>]

\* No call of WatcherSession.fetch is under way.
NoFetch ==
    /\ max_retries = 3
    /\ attempt = 1
    /\ backoff = 1
    /\ fpc = "attempt"
    /\ responses = <<>>
    /\ raised = <<>>

\* config.watch.state_file, a Path: the name without its suffix, and the suffix.
state_file == [stem |-> "state", suffix |-> ".json"]

\* Path.with_suffix.
with_suffix(path, suffix) == [stem |-> path.stem, suffix |-> suffix]

\* tmp_path of save_state, written over the state file itself.
tmp_path_in_place(path) == path

\* tmp_path of save_state.
tmp_path(path) == with_suffix(path, path.suffix \o ".tmp")

\* No call of save_state is under way, and the directory is empty.
NoSave ==
    /\ files = [p \in {state_file, tmp_path(state_file)} |-> <<>>]
    /\ spc = "idle"
    /\ saving = EmptyState
    /\ held = <<>>
    /\ saves = 0

\* The loop of Watcher.run is not being timed.
NoTiming ==
    /\ sleep_seconds = 300
    /\ clock = 0
    /\ start_ts = 0
    /\ duration = 0
    /\ sleep_time = 0
    /\ tpc = "stamp"
    /\ starts = <<>>
    /\ durations = <<>>
    /\ sleeps = <<>>

\* Watcher.__init__ on the state file f, the configuration apart: state is
\* what load_state returns; if load_state raises, the process ends there
\* ("crashed") and run is never called.
Constructed(f) ==
    /\ pc = IF LoadError(f) = "none" THEN "login" ELSE "crashed"
    /\ exc = LoadError(f)
    /\ passes = 0
    /\ now = 0
    /\ state = load_state(f, 0)
    /\ file = f
    /\ restarts = 0
    /\ li = 1
    /\ page = 0
    /\ seen_pages = EmptyMap
    /\ new_entries = <<>>
    /\ best = <<>>
    /\ k = 1
    /\ previous_state = <<>>
    /\ key = <<>>
    /\ fetched = [i \in 1..NLists |-> <<>>]
    /\ sent = <<>>
    /\ left = 0
    /\ lost = <<>>
    /\ discarded = <<>>
    /\ silent = <<>>

(* The process starts: the configuration is loaded and the Watcher is built. *)
Init ==
    /\ NoFetch
    /\ NoSave
    /\ NoTiming
    /\ watch \in WatchConfigs
    /\ discord \in DiscordConfigs
    /\ once \in BOOLEAN
    /\ \E f \in {<<>>} \cup BrokenFiles : Constructed(f)

\* A Watcher that is built and not run, for the components modelled on their
\* own.
WatcherAside ==
    /\ watch = [list_urls |-> <<"u0">>, list_labels |-> <<"A">>, page_limit |-> 4]
    /\ discord = <<>>
    /\ once = TRUE
    /\ Constructed(<<>>)

\* The exception e leaves the try block of Watcher.run, and with it the frames
\* of the pass: the finally clause is next.
Raise(e) ==
    /\ pc' = "finally"
    /\ exc' = e
    /\ left' = IF e = "notify" THEN Len(best) - k ELSE 0
    /\ lost' = IF e = "notify" THEN <<[entry |-> best[k], key |-> key, at |-> now]>>
               ELSE lost
    /\ discarded' = IF e = "fetch" THEN new_entries ELSE <<>>
    /\ UNCHANGED silent
    /\ NoLocals

\* Watcher._login: both logins succeed (or are no-ops).
LoginOk ==
    /\ pc = "login"
    /\ pc' = "start"
    /\ UNCHANGED <<others, config, restarts, exc, passes, now, state, file, locals, sent, left, lost, discarded, silent>>

\* Watcher._login: raise_for_status or _build_login_payload raises.
LoginFail ==
    /\ pc = "login"
    /\ Raise("login")
    /\ UNCHANGED <<others, config, restarts, passes, now, state, file, sent>>

\* Top of the while loop of Watcher.run and of _run_once: start_ts is read,
\* new_entries and seen_pages are created, the first list is entered.
StartPass ==
    /\ pc = "start"
    /\ passes < MaxPasses
    /\ passes' = passes + 1
    /\ \E t \in Clock : now' = t
    /\ pc' = IF NLists >= 1 /\ watch.page_limit > 0 THEN "fetch" ELSE "handle"
    /\ UNCHANGED <<others, config, restarts, exc, state, file, locals, sent, left, lost, discarded, silent>>

\* The pagination of the current list is over (break, or page = page_limit):
\* the for loop goes to the next list, or to _handle_entries after the last.
NextList ==
    /\ li' = li + 1
    /\ page' = 0
    /\ pc' = IF li + 1 <= NLists /\ watch.page_limit > 0 THEN "fetch" ELSE "handle"

\* previous_contents and content_hash in previous_contents, compared with the
\* last hash only.
RepeatedLast(previous_contents, content_hash) ==
    /\ previous_contents # <<>>
    /\ content_hash = previous_contents[Len(previous_contents)]

\* previous_contents and content_hash in previous_contents
Repeated(previous_contents, content_hash) ==
    /\ previous_contents # <<>>
    /\ content_hash \in Range(previous_contents)

\* The fingerprints looked up whatever the label: those of the list that has
\* the most.
SeenForAny(label) ==
    IF DOMAIN seen_pages = {} THEN <<>>
    ELSE seen_pages[CHOOSE l \in DOMAIN seen_pages :
                       \A m \in DOMAIN seen_pages :
                          Len(seen_pages[m]) <= Len(seen_pages[l])]

\* seen_pages[label] of a defaultdict(list).
SeenFor(label) == IF label \in DOMAIN seen_pages THEN seen_pages[label] ELSE <<>>

\* The iteration with the loop going on while page <= page_limit.
FetchOkPastCeiling(content) ==
    /\ pc = "fetch"
    /\ LET label == paired_label(watch.list_labels, li)
           previous_contents == SeenFor(label)
           content_hash == sha256(content)
       IN  /\ fetched' = [fetched EXCEPT ![li] = Append(@, content)]
           /\ IF Repeated(previous_contents, content_hash)
              THEN /\ NextList
                   /\ seen_pages' = Put(seen_pages, label, previous_contents)
                   /\ UNCHANGED new_entries
              ELSE /\ seen_pages' = Put(seen_pages, label,
                                        Append(previous_contents, content_hash))
                   /\ new_entries' = new_entries
                          \o parse_entries(extract_lines(content), label, page)
                   /\ IF page + 1 <= watch.page_limit
                      THEN /\ page' = page + 1
                           /\ UNCHANGED <<li, pc>>
                      ELSE NextList
    /\ UNCHANGED <<others, config, restarts, exc, passes, now, state, file, best, k, previous_state,
                   key, sent, left, lost, discarded, silent>>

\* One iteration of the while loop of _run_once whose fetch returns content.
FetchOk(content) ==
    /\ pc = "fetch"
    /\ LET label == paired_label(watch.list_labels, li)
           previous_contents == SeenFor(label)
           content_hash == sha256(content)
       IN  /\ fetched' = [fetched EXCEPT ![li] = Append(@, content)]
           /\ IF Repeated(previous_contents, content_hash)
              THEN /\ NextList
                   /\ seen_pages' = Put(seen_pages, label, previous_contents)
                   /\ UNCHANGED new_entries
              ELSE /\ seen_pages' = Put(seen_pages, label,
                                        Append(previous_contents, content_hash))
                   /\ new_entries' = new_entries
                          \o parse_entries(extract_lines(content), label, page)
                   /\ IF page + 1 < watch.page_limit
                      THEN /\ page' = page + 1
                           /\ UNCHANGED <<li, pc>>
                      ELSE NextList
    /\ UNCHANGED <<others, config, restarts, exc, passes, now, state, file, best, k, previous_state,
                   key, sent, left, lost, discarded, silent>>

\* A fetch failure after which the records collected so far are recorded.
FetchFailKeepsEntries ==
    /\ pc = "fetch"
    /\ Raise("fetch")
    /\ state' = IF new_entries = <<>> THEN state
                ELSE record_entry(state, new_entries[1], now)
    /\ UNCHANGED <<others, config, restarts, passes, now, file, sent>>

\* session.fetch raises (retries exhausted, or a permanent error).
FetchFail ==
    /\ pc = "fetch"
    /\ Raise("fetch")
    /\ UNCHANGED <<others, config, restarts, passes, now, state, file, sent>>

(* ------------------------- Watcher._handle_entries --------------------- *)

\* Index in best of the entry with the key (label, target) of entry; 0 if none.
IndexOf(bst, entry) ==
    LET hits == {i \in DOMAIN bst : bst[i].label = entry.label /\ bst[i].target = entry.target}
    IN  IF hits = {} THEN 0 ELSE CHOOSE i \in hits : TRUE

\* The replacement test without its page tie-break.
ReplacesRankOnly(entry, previous) ==
    entry.rank < previous.rank

\* The replacement test with the page comparison as <=.
ReplacesOrEqual(entry, previous) ==
    \/ entry.rank < previous.rank
    \/ (entry.rank = previous.rank /\ entry.page <= previous.page)

\* entry.rank < previous.rank or (entry.rank == previous.rank and
\* entry.page < previous.page), for a previous that is not None.
Replaces(entry, previous) ==
    \/ entry.rank < previous.rank
    \/ (entry.rank = previous.rank /\ entry.page < previous.page)

RECURSIVE SelectBest(_, _)
\* The first loop of _handle_entries: best as the list of its values, in the
\* insertion order of their keys.
SelectBest(entries, bst) ==
    IF entries = <<>> THEN bst
    ELSE LET entry == Head(entries)
             i == IndexOf(bst, entry)
         IN  IF i = 0
             THEN SelectBest(Tail(entries), Append(bst, entry))
             ELSE IF Replaces(entry, bst[i])
                  THEN SelectBest(Tail(entries), [bst EXCEPT ![i] = entry])
                  ELSE SelectBest(Tail(entries), bst)

\* The change test with the rank and page comparisons as inequalities.
ChangedAnyDifference(entry, prev) ==
    \/ entry.rank # prev.rank
    \/ entry.page # prev.page
    \/ entry.shift # prev.shift
    \/ entry.date # prev.date

\* The condition of the "Improved entry" branch.
Changed(entry, prev) ==
    \/ entry.rank < prev.rank
    \/ entry.page < prev.page
    \/ entry.shift # prev.shift
    \/ entry.date # prev.date

\* The classification of _handle_entries: "new", "update" (changed) or "unchanged".
Classify(entry, previous) ==
    IF previous = <<>> THEN "new"
    ELSE IF Changed(entry, previous[1]) THEN "update" ELSE "unchanged"

\* _handle_entries dropping the positions of the pairs that have no record
\* in the pass.
HandleEntriesPrunes ==
    /\ pc = "handle"
    /\ best' = SelectBest(new_entries, <<>>)
    /\ k' = 1
    /\ pc' = IF best' = <<>> THEN "save" ELSE "evaluate"
    /\ li' = 1
    /\ page' = 0
    /\ seen_pages' = EmptyMap
    /\ fetched' = [i \in 1..NLists |-> <<>>]
    /\ state' = [state EXCEPT !.entries =
           [l \in DOMAIN state.entries |->
              [t \in {u \in DOMAIN state.entries[l] :
                        \E j \in DOMAIN SelectBest(new_entries, <<>>) :
                           /\ SelectBest(new_entries, <<>>)[j].label = l
                           /\ SelectBest(new_entries, <<>>)[j].target = u} |->
                 state.entries[l][t]]]]
    /\ UNCHANGED <<others, config, restarts, exc, passes, now, file, new_entries, previous_state,
                   key, sent, left, lost, discarded, silent>>

\* The for loop of _run_once is over and _handle_entries is entered with
\* new_entries as its argument: best is built from the entries of the pass.
\* The loop variables of _run_once are not used again.
HandleEntries ==
    /\ pc = "handle"
    /\ best' = SelectBest(new_entries, <<>>)
    /\ k' = 1
    /\ pc' = IF best' = <<>> THEN "save" ELSE "evaluate"
    /\ li' = 1
    /\ page' = 0
    /\ seen_pages' = EmptyMap
    /\ fetched' = [i \in 1..NLists |-> <<>>]
    /\ UNCHANGED <<others, config, restarts, exc, passes, now, state, file, new_entries, previous_state,
                   key, sent, left, lost, discarded, silent>>

\* The second loop of _handle_entries goes to its next item, or ends and
\* _run_once goes on to its save_state.
NextEntry ==
    /\ k' = k + 1
    /\ pc' = IF k + 1 <= Len(best) THEN "evaluate" ELSE "save"

\* The overwrite of the state made only for a new or changed entry.
EvaluateKeepUnchanged ==
    /\ pc = "evaluate"
    /\ LET entry == best[k]
           previous == best_previous(state, entry.label, entry.target)
           cls == Classify(entry, previous)
       IN  /\ previous_state' = previous
           /\ state' = IF cls = "unchanged" THEN state ELSE record_entry(state, entry, now)
           /\ IF cls \in {"new", "update"}
              THEN pc' = "notify" /\ UNCHANGED k
              ELSE NextEntry
    /\ new_entries' = <<>>
    /\ UNCHANGED <<others, config, restarts, exc, passes, now, file, li, page, seen_pages,
                   best, key, fetched, sent, left, lost, discarded, silent>>

\* The evaluation recording the position only when a notifier is configured.
EvaluateOnlyNotified ==
    /\ pc = "evaluate"
    /\ LET entry == best[k]
           previous == best_previous(state, entry.label, entry.target)
           cls == Classify(entry, previous)
       IN  /\ previous_state' = previous
           /\ state' = IF discord = <<>> THEN state
                       ELSE record_entry(state, entry, now)
           /\ IF cls \in {"new", "update"}
              THEN pc' = "notify" /\ UNCHANGED k
              ELSE NextEntry
    /\ new_entries' = <<>>
    /\ UNCHANGED <<others, config, restarts, exc, passes, now, file, li, page, seen_pages,
                   best, key, fetched, sent, left, lost, discarded, silent>>

\* One item of the second loop of _handle_entries, up to the call of
\* _maybe_notify: the previous state is read, the entry overwrites it, and the
\* transition is classified.  The argument entries is not read after the first
\* loop.
Evaluate ==
    /\ pc = "evaluate"
    /\ LET entry == best[k]
           previous == best_previous(state, entry.label, entry.target)
           cls == Classify(entry, previous)
       IN  /\ previous_state' = previous
           /\ state' = record_entry(state, entry, now)
           /\ IF cls \in {"new", "update"}
              THEN pc' = "notify" /\ UNCHANGED k
              ELSE NextEntry
    /\ new_entries' = <<>>
    /\ UNCHANGED <<others, config, restarts, exc, passes, now, file, li, page, seen_pages,
                   best, key, fetched, sent, left, lost, discarded, silent>>

(* -------------------------- Watcher._maybe_notify ---------------------- *)

\* DiscordNotifier.enabled
enabled == discord # <<>>

\* The if/elif/else on the rank with < for <=.
TierStrict(rank) ==
    IF rank < top_threshold THEN "top"
    ELSE IF rank < warn_threshold THEN "warn"
    ELSE "update"

\* The threshold chosen by the if/elif/else on the rank.
Tier(rank) ==
    IF rank <= top_threshold THEN "top"
    ELSE IF rank <= warn_threshold THEN "warn"
    ELSE "update"

\* The template of the tier, the top template standing in for a missing one.
TemplateFallback(tier) ==
    IF discord = <<>> THEN ""
    ELSE CASE tier = "top" -> discord[1].top_template
           [] tier = "warn" /\ discord[1].warn_template # "" -> discord[1].warn_template
           [] tier = "warn" /\ discord[1].warn_template = "" -> discord[1].top_template
           [] tier = "update" /\ discord[1].update_template # "" -> discord[1].update_template
           [] tier = "update" /\ discord[1].update_template = "" -> discord[1].top_template

\* The template of the tier, None ("") when there is no discord configuration.
Template(tier) ==
    IF discord = <<>> THEN ""
    ELSE CASE tier = "top" -> discord[1].top_template
           [] tier = "warn" -> discord[1].warn_template
           [] tier = "update" -> discord[1].update_template

\* f"{entry.label}|{entry.target}|{entry.date}|{entry.shift}|{threshold}"
AlertKey(entry, tier) ==
    <<entry.label, entry.target, Str(entry.date), Str(entry.shift), tier>>

\* _maybe_notify up to the cooldown test: it returns (not enabled, no template,
\* cooldown) or goes on to send.
MaybeNotify ==
    /\ pc = "notify"
    /\ LET entry == best[k]
           threshold == Tier(entry.rank)
           template == Template(threshold)
           akey == AlertKey(entry, threshold)
       IN  IF ~enabled \/ template = ""
           THEN NextEntry /\ UNCHANGED key
           ELSE IF should_alert(state, akey, cooldown_minutes, now)
                THEN pc' = "send" /\ key' = akey /\ UNCHANGED k
                ELSE NextEntry /\ UNCHANGED key
    /\ UNCHANGED <<others, config, restarts, exc, passes, now, state, file, li, page, seen_pages,
                   new_entries, best, previous_state, fetched, sent, left, lost, discarded, silent>>

\* notifier.send returns after d minutes: the message was delivered.
SendOk ==
    /\ pc = "send"
    /\ \E d \in SendDelays :
         /\ now' = After(d)
         /\ sent' = Append(sent, [key |-> key, at |-> After(d)])
    /\ pc' = "record_alert"
    /\ UNCHANGED <<others, config, restarts, exc, passes, state, file, locals, left, lost, discarded, silent>>

\* A failed send that is swallowed: the loop goes on with the next entry.
SendFailSwallowed ==
    /\ pc = "send"
    /\ NextEntry
    /\ UNCHANGED <<others, config, restarts, exc, passes, now, state, file, li, page, seen_pages,
                   new_entries, best, previous_state, key, fetched, sent, left, lost, discarded, silent>>

\* A failed send that takes back the position recorded for the entry.
SendFailRollsBack ==
    /\ pc = "send"
    /\ Raise("notify")
    /\ state' = IF previous_state = <<>>
                THEN [state EXCEPT !.entries = EmptyMap]
                ELSE [state EXCEPT !.entries[best[k].label][best[k].target] =
                                       previous_state[1]]
    /\ UNCHANGED <<others, config, restarts, passes, now, file, sent>>

\* notifier.send raises (raise_for_status, or requests.post itself).
SendFail ==
    /\ pc = "send"
    /\ Raise("notify")
    /\ UNCHANGED <<others, config, restarts, passes, now, state, file, sent>>

\* self.state.record_alert(key)
RecordAlert ==
    /\ pc = "record_alert"
    /\ state' = record_alert(state, key, now)
    /\ pc' = "save_alert"
    /\ UNCHANGED <<others, config, restarts, exc, passes, now, file, locals, sent, left, lost, discarded, silent>>

\* _maybe_notify returning after record_alert without its save_state.
SaveAlertSkipped ==
    /\ pc = "save_alert"
    /\ NextEntry
    /\ UNCHANGED <<others, config, restarts, exc, passes, now, state, file, li, page, seen_pages,
                   new_entries, best, previous_state, key, fetched, sent, left, lost, discarded, silent>>

\* save_state at the end of _maybe_notify, then back in the loop of
\* _handle_entries.
SaveAlert ==
    /\ pc = "save_alert"
    /\ file' = <<save_state(state)>>
    /\ NextEntry
    /\ UNCHANGED <<others, config, restarts, exc, passes, now, state, li, page, seen_pages,
                   new_entries, best, previous_state, key, fetched, sent, left, lost, discarded, silent>>

(* ------------------------------ Watcher.run ---------------------------- *)

\* The end of _run_once without its save_state.
SavePassSkipped ==
    /\ pc = "save"
    /\ pc' = IF once THEN "finally" ELSE "sleep"
    /\ NoLocals
    /\ UNCHANGED <<others, config, restarts, exc, passes, now, state, file, sent, left, lost, discarded, silent>>

\* save_state at the end of _run_once; back in run, the duration is read and
\* the loop breaks (once) or goes to sleep.
SavePass ==
    /\ pc = "save"
    /\ file' = <<save_state(state)>>
    /\ pc' = IF once THEN "finally" ELSE "sleep"
    /\ NoLocals
    /\ UNCHANGED <<others, config, restarts, exc, passes, now, state, sent, left, lost, discarded, silent>>

\* time.sleep(sleep_time) returns.
Sleep ==
    /\ pc = "sleep"
    /\ pc' = "start"
    /\ UNCHANGED <<others, config, restarts, exc, passes, now, state, file, locals, sent, left, lost, discarded, silent>>

\* KeyboardInterrupt inside the try block.
Interrupt ==
    /\ pc \in {"login", "start", "fetch", "handle", "evaluate", "notify", "send",
               "record_alert", "save_alert", "save", "sleep"}
    /\ Raise("interrupt")
    /\ UNCHANGED <<others, config, restarts, passes, now, state, file, sent>>

\* A finally clause that does not save.
FinallyNoSave ==
    /\ pc = "finally"
    /\ pc' = "done"
    /\ UNCHANGED <<others, config, restarts, exc, passes, now, state, file, locals, sent, left, lost, discarded, silent>>

\* The finally clause of run: save_state, then run returns or the exception
\* propagates.
Finally ==
    /\ pc = "finally"
    /\ file' = <<save_state(state)>>
    /\ pc' = "done"
    /\ UNCHANGED <<others, config, restarts, exc, passes, now, state, locals, sent, left, lost, discarded, silent>>

\* The process has ended and is started again: Watcher.__init__ loads the
\* state file the process before left. The configuration is read again: it is
\* the same, or a notifier that was not configured is configured now.
Restart ==
    /\ pc \in {"done", "crashed"}
    /\ restarts < MaxRestarts
    /\ passes < MaxPasses
    /\ restarts' = restarts + 1
    /\ pc' = IF LoadError(file) = "none" THEN "login" ELSE "crashed"
    /\ exc' = LoadError(file)
    /\ state' = load_state(file, now)
    /\ sent' = <<>>
    /\ left' = 0
    /\ discarded' = <<>>
    /\ UNCHANGED lost
    /\ discord' \in IF discord = <<>> THEN DiscordConfigs ELSE {discord}
    /\ silent' = IF discord = <<>> /\ discord' # <<>> THEN <<state.entries>> ELSE <<>>
    /\ NoLocals
    /\ UNCHANGED <<others, watch, once, passes, now, file>>

Next ==
    \/ Restart
    \/ LoginOk
    \/ LoginFail
    \/ StartPass
    \/ \E content \in ContentIds : FetchOk(content)
    \/ FetchFail
    \/ HandleEntries
    \/ Evaluate
    \/ MaybeNotify
    \/ SendOk
    \/ SendFail
    \/ RecordAlert
    \/ SaveAlert
    \/ SavePass
    \/ Sleep
    \/ Interrupt
    \/ Finally

Spec == Init /\ [][Next]_vars

(* --------------- Watcher.run on the state file of an earlier run -------- *)

\* The State an earlier run left after a pass over the page "c1" at time 0,
\* its notifier not configured: the positions of the page, no AlertRecord.
EarlierState ==
    LET entries == SelectBest(parse_entries(extract_lines("c1"), "A", 0), <<>>)
    IN  record_entry(record_entry(EmptyState, entries[1], 0), entries[2], 0)

\* The process starts on that state file, with one list, every template
\* configured, in loop mode.
InitEarlier ==
    /\ NoFetch
    /\ NoSave
    /\ NoTiming
    /\ watch = [list_urls |-> <<"u0">>, list_labels |-> <<"A">>, page_limit |-> 4]
    /\ discord \in {d \in DiscordConfigs : d # <<>>}
    /\ once = FALSE
    /\ Constructed(<<save_state(EarlierState)>>)

SpecEarlier == InitEarlier /\ [][Next]_vars

(* ------------------------- WatcherSession.fetch ------------------------ *)

\* Largest MAX_RETRIES of the model.
MaxRetries == 3

\* The values of WatchConfig.max_retries.
RetryCounts == 0..MaxRetries

\* WatchConfig.retry_backoff
retry_backoff == 2

\* What one session.get can come to: a response with its status code, or one
\* of the exceptions fetch catches.
Outcomes ==
    {[error |-> "none", status |-> c] : c \in {200, 404, 429, 503}}
        \cup {[error |-> e, status |-> 0] : e \in {"Timeout", "ConnectionError"}}

\* An exception: its class and, for an HTTPError, the status of its response.
Exception(type, status) == [type |-> type, status |-> status]

\* The try block raises HTTPError: the explicit raise for >= 500 and 429, or
\* response.raise_for_status() for the other 4xx and 5xx.
RaisesHTTPError(r) ==
    /\ r.error = "none"
    /\ \/ r.status >= 500 \/ r.status \in {429}
       \/ (400 <= r.status /\ r.status < 600)

\* The except branch with its raise removed.
PermanentNever(r) == FALSE

\* The HTTPError is raised again by the except branch: a 4xx other than 429.
Permanent(r) ==
    /\ RaisesHTTPError(r)
    /\ 400 <= r.status /\ r.status < 500 /\ r.status \notin {429}

\* The attempt ends in one of the except branches and falls out of it.
Transient(r) ==
    \/ r.error \in {"Timeout", "ConnectionError"}
    \/ (RaisesHTTPError(r) /\ ~Permanent(r))

\* What the steps of fetch leave alone.
beside_fetch == <<watcher_vars, save_vars, timing_vars>>

\* A call of fetch begins, under a configuration with some max_retries.
InitFetch ==
    /\ WatcherAside
    /\ NoSave
    /\ NoTiming
    /\ max_retries \in RetryCounts
    /\ attempt = 1
    /\ backoff = 1
    /\ fpc = "attempt"
    /\ responses = <<>>
    /\ raised = <<>>

\* An attempt gets a response that is not an error: fetch returns it.
FetchReturn(r) ==
    /\ fpc = "attempt" /\ attempt <= max_retries
    /\ r.error = "none" /\ ~RaisesHTTPError(r)
    /\ responses' = Append(responses, r)
    /\ fpc' = "returned"
    /\ UNCHANGED <<beside_fetch, max_retries, attempt, backoff, raised>>

\* An attempt gets a permanent error: the except branch raises it again.
FetchPermanent(r) ==
    /\ fpc = "attempt" /\ attempt <= max_retries
    /\ Permanent(r)
    /\ responses' = Append(responses, r)
    /\ raised' = <<Exception("HTTPError", r.status)>>
    /\ fpc' = "raised"
    /\ UNCHANGED <<beside_fetch, max_retries, attempt, backoff>>

\* An attempt that is not the last fails: fetch sleeps for backoff seconds,
\* multiplies backoff and goes round the loop.
FetchRetry(r) ==
    /\ fpc = "attempt" /\ attempt <= max_retries
    /\ Transient(r)
    /\ attempt # max_retries
    /\ responses' = Append(responses, r)
    /\ backoff' = backoff * retry_backoff
    /\ attempt' = attempt + 1
    /\ UNCHANGED <<beside_fetch, max_retries, fpc, raised>>

\* The last attempt fails: the bare raise after the try statement runs with
\* no exception being handled, which raises RuntimeError ("No active
\* exception to reraise").
FetchExhausted(r) ==
    /\ fpc = "attempt" /\ attempt <= max_retries
    /\ Transient(r)
    /\ attempt = max_retries
    /\ responses' = Append(responses, r)
    /\ raised' = <<Exception("RuntimeError", 0)>>
    /\ fpc' = "raised"
    /\ UNCHANGED <<beside_fetch, max_retries, attempt, backoff>>

\* The for loop has nothing (left) to do: raise RuntimeError("Unreachable").
FetchUnreachable ==
    /\ fpc = "attempt" /\ attempt > max_retries
    /\ raised' = <<Exception("RuntimeError", 0)>>
    /\ fpc' = "raised"
    /\ UNCHANGED <<beside_fetch, max_retries, attempt, backoff, responses>>

NextFetch ==
    \/ \E r \in Outcomes : FetchReturn(r)
    \/ \E r \in Outcomes : FetchPermanent(r)
    \/ \E r \in Outcomes : FetchRetry(r)
    \/ \E r \in Outcomes : FetchExhausted(r)
    \/ FetchUnreachable

SpecFetch == InitFetch /\ [][NextFetch]_vars

(* ------------------------ state.py: save_state ------------------------ *)

MaxSaves == 3

\* The text json.dump(payload, fh, indent=2, sort_keys=True) writes, in the
\* chunks it hands to fh.write: the keys sorted, "alerts" before "entries".
dump(payload) ==
    <<[text |-> "{"], [alerts |-> payload.alerts], [entries |-> payload.entries],
      [text |-> "}"]>>

\* Some Entry and some alert key of a pass.
SomeEntry == parse_entries(extract_lines("c1"), "A", 0)[1]
SomeKey == AlertKey(SomeEntry, Tier(SomeEntry.rank))

\* The States handed to save_state, one pass after the other.
SavedStates ==
    { EmptyState,
      record_entry(EmptyState, SomeEntry, 0),
      record_alert(record_entry(EmptyState, SomeEntry, 1), SomeKey, 1) }

\* What the steps of save_state leave alone.
beside_save == <<watcher_vars, fetch_vars, timing_vars>>

\* The directory before the first save: the state file is absent, or there
\* from an earlier run.
InitSave ==
    /\ WatcherAside
    /\ NoFetch
    /\ NoTiming
    /\ \E first \in {<<>>} \cup {<<dump(save_state(st))>> : st \in SavedStates} :
          files = [p \in {state_file, tmp_path(state_file)} |->
                     IF p = state_file THEN first ELSE <<>>]
    /\ spc = "idle"
    /\ saving = EmptyState
    /\ held = files[state_file]
    /\ saves = 0

\* save_state is called with st: the payload is built.
SaveCalled(st) ==
    /\ spc = "idle"
    /\ saves < MaxSaves
    /\ saving' = st
    /\ held' = files[state_file]
    /\ spc' = "open"
    /\ UNCHANGED <<beside_save, files, saves>>

\* tmp_path.open("w"): the file is created, or truncated if it is there.
OpenTmp ==
    /\ spc = "open"
    /\ files' = [files EXCEPT ![tmp_path(state_file)] = <<<<>>>>]
    /\ spc' = "dump"
    /\ UNCHANGED <<beside_save, saving, held, saves>>

\* json.dump: the next chunk of the text reaches the file.
WriteChunk ==
    /\ spc = "dump"
    /\ LET text == files[tmp_path(state_file)][1]
           whole == dump(save_state(saving))
       IN  /\ Len(text) < Len(whole)
           /\ files' = [files EXCEPT ![tmp_path(state_file)] =
                                          <<Append(text, whole[Len(text) + 1])>>]
    /\ UNCHANGED <<beside_save, spc, saving, held, saves>>

\* The with block is left: the file is closed with the whole text in it.
CloseTmp ==
    /\ spc = "dump"
    /\ Len(files[tmp_path(state_file)][1]) = Len(dump(save_state(saving)))
    /\ spc' = "replace"
    /\ UNCHANGED <<beside_save, files, saving, held, saves>>

\* tmp_path.replace(path): one rename, the state file is now what tmp_path was.
Replace ==
    /\ spc = "replace"
    /\ files' = [p \in DOMAIN files |->
                   IF p = state_file THEN files[tmp_path(state_file)]
                   ELSE IF p = tmp_path(state_file) THEN <<>>
                   ELSE files[p]]
    /\ spc' = "idle"
    /\ saves' = saves + 1
    /\ UNCHANGED <<beside_save, saving, held>>

\* The process is killed, or open, write or replace raises OSError: save_state
\* is left where it is and the files stay as they are.
SaveAborted ==
    /\ spc \in {"open", "dump", "replace"}
    /\ spc' = "idle"
    /\ saves' = saves + 1
    /\ UNCHANGED <<beside_save, files, saving, held>>

NextSave ==
    \/ \E st \in SavedStates : SaveCalled(st)
    \/ OpenTmp
    \/ WriteChunk
    \/ CloseTmp
    \/ Replace
    \/ SaveAborted

SpecSave == InitSave /\ [][NextSave]_vars

(* ------------------- Watcher.run: the timing of the loop --------------- *)

MaxLoops == 3

\* The values of INTERVAL_SECONDS load_config lets through: max(raw, 60).
Intervals == {60, 90}

\* The seconds a pass can take: the fetches of one pass, read timeout 90.
Durations == {0, 30, 60, 90, 120}

\* max(a, b) of Python.
max(a, b) == IF a >= b THEN a ELSE b

\* sleep_time without the max.
SleepTimeRaw(interval, d) == interval - d

\* sleep_time = max(self.config.watch.sleep_seconds - duration, 0)
SleepTime(interval, d) == max(interval - d, 0)

\* What the steps of the loop's timing leave alone.
beside_timing == <<watch, discord, once, pc, exc, passes, now, state, file, li, page,
                   seen_pages, new_entries, best, k, previous_state, key, fetched,
                   sent, left, lost, discarded, silent, restarts, fetch_vars, save_vars>>

\* run is called, logged in, at the top of the loop.
InitTiming ==
    /\ watch = [list_urls |-> <<"u0">>, list_labels |-> <<"A">>, page_limit |-> 4]
    /\ discord = <<>>
    /\ once \in BOOLEAN
    /\ Constructed(<<>>)
    /\ NoFetch
    /\ NoSave
    /\ sleep_seconds \in Intervals
    /\ clock = 0
    /\ start_ts = 0
    /\ duration = 0
    /\ sleep_time = 0
    /\ tpc = "stamp"
    /\ starts = <<>>
    /\ durations = <<>>
    /\ sleeps = <<>>

\* start_ts = datetime.utcnow()
Stamp ==
    /\ tpc = "stamp"
    /\ Len(starts) < MaxLoops
    /\ start_ts' = clock
    /\ starts' = Append(starts, clock)
    /\ tpc' = "pass"
    /\ UNCHANGED <<beside_timing, sleep_seconds, clock, duration, sleep_time, durations, sleeps>>

\* self._run_once() returns after d seconds.
RunOnce(d) ==
    /\ tpc = "pass"
    /\ clock' = clock + d
    /\ tpc' = "measure"
    /\ UNCHANGED <<beside_timing, sleep_seconds, start_ts, duration, sleep_time, starts,
                   durations, sleeps>>

\* duration = (datetime.utcnow() - start_ts).total_seconds()
Measure ==
    /\ tpc = "measure"
    /\ duration' = clock - start_ts
    /\ durations' = Append(durations, clock - start_ts)
    /\ tpc' = "once"
    /\ UNCHANGED <<beside_timing, sleep_seconds, clock, start_ts, sleep_time, starts, sleeps>>

\* if self.once: break
Break ==
    /\ tpc = "once"
    /\ once
    /\ tpc' = "exit"
    /\ UNCHANGED <<beside_timing, sleep_seconds, clock, start_ts, duration, sleep_time,
                   starts, durations, sleeps>>

\* sleep_time = max(self.config.watch.sleep_seconds - duration, 0)
ComputeSleepTime ==
    /\ tpc = "once"
    /\ ~once
    /\ sleep_time' = SleepTime(sleep_seconds, duration)
    /\ tpc' = "sleep"
    /\ UNCHANGED <<beside_timing, sleep_seconds, clock, start_ts, duration, starts,
                   durations, sleeps>>

\* time.sleep(sleep_time) returns, sleep_time seconds later; a negative
\* argument raises ValueError, which leaves the loop.
TimeSleep ==
    /\ tpc = "sleep"
    /\ sleeps' = Append(sleeps, sleep_time)
    /\ IF sleep_time >= 0
       THEN clock' = clock + sleep_time /\ tpc' = "stamp"
       ELSE clock' = clock /\ tpc' = "exit"
    /\ UNCHANGED <<beside_timing, sleep_seconds, start_ts, duration, sleep_time, starts,
                   durations>>

NextTiming ==
    \/ Stamp
    \/ \E d \in Durations : RunOnce(d)
    \/ Measure
    \/ Break
    \/ ComputeSleepTime
    \/ TimeSleep

SpecTiming == InitTiming /\ [][NextTiming]_vars

(* ======================================================================= *)
(*                               Properties                                *)
(* ======================================================================= *)

\* The positions of Watcher.run at which a fetch, a send or the end-of-pass
\* save is still to come.
Running == pc \in {"start", "fetch", "handle", "evaluate", "notify", "send", "save", "sleep"}

\* List i has been paginated to its end in the current pass.
ListOver(i) == pc # "fetch" \/ li > i

\* Page index (0-based) p of list i repeats an earlier page of that list.
RepeatsEarlier(i, p) == \E q \in 0..(p - 1) : fetched[i][q + 1] = fetched[i][p + 1]

\* The lists that carry the label lb.
ListsOf(lb) == {i \in 1..NLists : paired_label(watch.list_labels, i) = lb}

(* C1: within one pass and for each list, a page whose content equals ANY   *)
(* earlier page of that list in the pass is the last page fetched for it    *)
(* (the pagination of the list is over as soon as it has been fetched, so   *)
(* the next index is never fetched), and every record of the pass comes     *)
(* from a page of its list whose index is not past that page.               *)
C1_StopsAtAnyRepeat ==
    /\ \A i \in 1..NLists : \A p \in 0..(Len(fetched[i]) - 1) :
         RepeatsEarlier(i, p) => (p = Len(fetched[i]) - 1 /\ ListOver(i))
    /\ pc \in {"fetch", "handle"} =>
         \A n \in DOMAIN new_entries :
            \E i \in ListsOf(new_entries[n].label) :
               /\ new_entries[n].page < Len(fetched[i])
               /\ \A p \in 0..(Len(fetched[i]) - 1) :
                     RepeatsEarlier(i, p) => new_entries[n].page <= p

\* C1's case: pages 0 and 2 of a list are identical, page 1 differs, the
\* ceiling is 4, and the pagination ended with page 2 (page 3 was not fetched).
C1_Witness ==
    /\ pc = "handle"
    /\ watch.page_limit = 4
    /\ Len(fetched[1]) = 3
    /\ fetched[1][1] = fetched[1][3]
    /\ fetched[1][2] # fetched[1][1]
    /\ new_entries # <<>>

(* C2: any two successful sends with the same alert key are at least the    *)
(* cooldown apart, in one process.                                          *)
C2_OncePerCooldown ==
    \A i \in DOMAIN sent : \A j \in DOMAIN sent :
        (i < j /\ sent[i].key = sent[j].key) => sent[j].at - sent[i].at >= cooldown_minutes

\* C2's case: the same alert key was sent twice.
C2_Witness ==
    \E i \in DOMAIN sent : \E j \in DOMAIN sent : i < j /\ sent[i].key = sent[j].key

\* The alert key of the entry under evaluation has a configured template.
HasTemplate == enabled /\ Template(Tier(best[k].rank)) # ""

\* The AlertRecord of the entry under evaluation allows a send at the time now:
\* there is none, or the time since its sent_at is at least the cooldown.
CooldownOver ==
    LET akey == AlertKey(best[k], Tier(best[k].rank))
    IN  \/ akey \notin DOMAIN state.alerts
        \/ now - state.alerts[akey].sent_at >= cooldown_minutes

(* C3: for a qualifying record with a configured template, _maybe_notify    *)
(* goes on to send iff the alert key has no AlertRecord or the time since   *)
(* its sent_at is >= the cooldown (equality included); otherwise nothing is *)
(* sent and the state, AlertRecords included, is left unchanged.            *)
C3_CooldownGate ==
    [][ (pc = "notify" /\ HasTemplate /\ exc' = "none") =>
           /\ (pc' = "send") <=> CooldownOver
           /\ (pc' = "send") => key' = AlertKey(best[k], Tier(best[k].rank))
           /\ (pc' # "send") => (state' = state /\ sent' = sent /\ file' = file) ]_vars

\* C3's case: a send goes ahead for a key whose AlertRecord is exactly one
\* cooldown old.
C3_Witness ==
    /\ pc = "send"
    /\ key \in DOMAIN state.alerts
    /\ now - state.alerts[key].sent_at = cooldown_minutes

(* C4: the selected record of a (label, target) pair is handed to            *)
(* _maybe_notify iff there is no previous PositionState, or there is one and *)
(* the rank is lower, or the page is lower, or the shift differs, or the     *)
(* date differs; otherwise (rank and/or page only increased, same shift and  *)
(* date) the loop goes to the next entry and nothing is sent or recorded.    *)
C4_Classification ==
    [][ (pc = "evaluate" /\ exc' = "none") =>
           LET entry == best[k]
               known == /\ entry.label \in DOMAIN state.entries
                        /\ entry.target \in DOMAIN state.entries[entry.label]
               old   == state.entries[entry.label][entry.target]
           IN  /\ (pc' = "notify") <=>
                     \/ ~known
                     \/ entry.rank < old.rank
                     \/ entry.page < old.page
                     \/ entry.shift # old.shift
                     \/ entry.date # old.date
               /\ (pc' # "notify") =>
                     /\ k' = k + 1
                     /\ sent' = sent
                     /\ state'.alerts = state.alerts
                     /\ file' = file ]_vars

\* C4's case: the entry just evaluated has a worse rank than its previous
\* PositionState, on the same page with the same shift and date, and the loop
\* went past it without a dispatch.
C4_Witness ==
    /\ pc \in {"evaluate", "save"}
    /\ k > 1
    /\ previous_state # <<>>
    /\ best[k - 1].rank > previous_state[1].rank
    /\ best[k - 1].page = previous_state[1].page
    /\ best[k - 1].shift = previous_state[1].shift
    /\ best[k - 1].date = previous_state[1].date

\* The PositionState of (entry.label, entry.target) holds the record entry.
Holds(st, entry) ==
    /\ entry.label \in DOMAIN st.entries
    /\ entry.target \in DOMAIN st.entries[entry.label]
    /\ LET es == st.entries[entry.label][entry.target]
       IN  /\ es.rank = entry.rank
           /\ es.page = entry.page
           /\ es.shift = entry.shift
           /\ es.date = entry.date
           /\ es.raw = entry.raw

(* C5: when the entry handling of a pass is over, the PositionState of      *)
(* every (label, target) selected in the pass equals the selected record    *)
(* (rank, page, shift, date, raw), whatever its classification and whatever *)
(* the previous value was.                                                  *)
C5_PositionOverwritten ==
    pc = "save" => \A j \in DOMAIN best : Holds(state, best[j])

\* C5's case: at the end of the entry handling, the PositionState of a pair
\* holds the record of this pass, whose rank is worse than the one the state
\* file still has from the pass before (same page, shift and date: unchanged).
C5_Witness ==
    /\ pc = "save"
    /\ IsDocument(file)
    /\ \E j \in DOMAIN best :
          /\ Holds(state, best[j])
          /\ best[j].label \in DOMAIN file[1].entries
          /\ best[j].target \in DOMAIN file[1].entries[best[j].label]
          /\ LET old == file[1].entries[best[j].label][best[j].target]
             IN  /\ old.rank < best[j].rank
                 /\ old.page = best[j].page
                 /\ old.shift = best[j].shift
                 /\ old.date = best[j].date

\* Two records of the same (label, target) pair.
SameKey(a, b) == a.label = b.label /\ a.target = b.target

\* (a.rank, a.page) <= (b.rank, b.page) in the lexicographic order.
LexLeq(a, b) == a.rank < b.rank \/ (a.rank = b.rank /\ a.page <= b.page)

(* C6: once the fold of _handle_entries has run over the records of a pass, *)
(* best holds exactly one record per (label, target) pair of the pass, that *)
(* record is one of the pass's records, and its (rank, page) is             *)
(* lexicographically minimal among the records of the pair.                 *)
C6_LexMin ==
    (pc = "evaluate" /\ k = 1) =>
        /\ \A n \in DOMAIN new_entries : \E j \in DOMAIN best :
              SameKey(best[j], new_entries[n]) /\ LexLeq(best[j], new_entries[n])
        /\ \A j \in DOMAIN best : best[j] \in Range(new_entries)
        /\ \A i \in DOMAIN best : \A j \in DOMAIN best :
              SameKey(best[i], best[j]) => i = j

\* C6's case: a record of page 1 arrived before a record of the same pair with
\* the same rank on page 0, and the page-0 record is the one selected.
C6_Witness ==
    /\ pc = "evaluate" /\ k = 1
    /\ \E m \in DOMAIN new_entries : \E n \in DOMAIN new_entries :
          /\ m < n
          /\ SameKey(new_entries[m], new_entries[n])
          /\ new_entries[m].rank = new_entries[n].rank
          /\ new_entries[n].page < new_entries[m].page
          /\ new_entries[n] \in Range(best)

\* Two records that carry the same label and page index.
SamePage(a, b) == a.label = b.label /\ a.page = b.page

RECURSIVE PrefixLen(_, _)
\* The length of the longest prefix of entries made of records of the page of
\* its first record (at least n).
PrefixLen(entries, n) ==
    IF n < Len(entries) /\ SamePage(entries[n + 1], entries[1])
    THEN PrefixLen(entries, n + 1)
    ELSE n

\* The orders in which the records of seq can be traversed.
Permuted(seq) == {[i \in DOMAIN seq |-> seq[f[i]]] : f \in Permutations(DOMAIN seq)}

RECURSIVE Orders(_)
\* The sequences obtained from entries by permuting the records of each page
\* among themselves, the pages staying in their order.
Orders(entries) ==
    IF entries = <<>> THEN {<<>>}
    ELSE LET n == PrefixLen(entries, 1)
         IN  {h \o t : h \in Permuted(SubSeq(entries, 1, n)),
                       t \in Orders(SubSeq(entries, n + 1, Len(entries)))}

\* No two lists share a label: the records of one (label, page) come from one
\* fetched page.
DistinctLabels == \A lb \in {paired_label(watch.list_labels, i) : i \in 1..NLists} :
                      Cardinality(ListsOf(lb)) = 1

(* C7 as stated: for any permutation of the records within their pages, the *)
(* fold selects the same record per target, shift, date and raw text        *)
(* included.                                                                *)
C7_OrderIndependent ==
    (pc = "evaluate" /\ k = 1 /\ DistinctLabels) =>
        \A o \in Orders(new_entries) : Range(SelectBest(o, <<>>)) = Range(best)

\* The index in o of the first record of the pair of e that has the rank and
\* the page of e.
FirstAt(o, e) ==
    CHOOSE n \in DOMAIN o :
        /\ SameKey(o[n], e) /\ o[n].rank = e.rank /\ o[n].page = e.page
        /\ \A m \in 1..(n - 1) :
              ~(SameKey(o[m], e) /\ o[m].rank = e.rank /\ o[m].page = e.page)

(* C7, amended: for any permutation of the records within their pages, the  *)
(* fold selects for each (label, target) pair a record with the same rank   *)
(* and page index (the lexicographic minimum), and that record is the first *)
(* one in the traversal order that has this rank and page: its shift, date  *)
(* and raw text follow the order when two records of a pair tie.            *)
C7_FirstMinimalWins ==
    (pc = "evaluate" /\ k = 1) =>
        \A o \in Orders(new_entries) :
            LET b == SelectBest(o, <<>>)
            IN  /\ Len(b) = Len(best)
                /\ \A j \in DOMAIN best : \E i \in DOMAIN b :
                      /\ SameKey(b[i], best[j])
                      /\ b[i].rank = best[j].rank
                      /\ b[i].page = best[j].page
                /\ \A i \in DOMAIN b : b[i] = o[FirstAt(o, b[i])]

\* C7's case: a page held two records of one pair with the same rank and
\* different shifts; the first of them was selected.
C7_Witness ==
    /\ pc = "evaluate" /\ k = 1
    /\ \E m \in DOMAIN new_entries : \E n \in DOMAIN new_entries :
          /\ m < n
          /\ SameKey(new_entries[m], new_entries[n])
          /\ SamePage(new_entries[m], new_entries[n])
          /\ new_entries[m].rank = new_entries[n].rank
          /\ new_entries[m].shift # new_entries[n].shift
          /\ new_entries[m] \in Range(best)

\* The state file holds an AlertRecord for the alert key akey.
Persisted(akey) == IsDocument(file) /\ akey \in DOMAIN file[1].alerts

\* sent[i] is the last successful send of its alert key.
LastOfKey(i) == \A j \in DOMAIN sent : j > i => sent[j].key # sent[i].key

(* C8: after a successful send, record_alert stores an AlertRecord for the  *)
(* key with the time read at that point, and the state is saved before the  *)
(* run goes on: wherever a further send, a fetch or the end-of-pass save    *)
(* can follow, the state file holds an AlertRecord for every key that was   *)
(* sent, stamped with the time of its last send.                            *)
C8_AlertPersisted ==
    /\ pc = "save_alert" =>
          /\ key \in DOMAIN state.alerts
          /\ state.alerts[key].sent_at = now
          /\ sent[Len(sent)] = [key |-> key, at |-> now]
    /\ Running =>
          \A i \in DOMAIN sent :
              /\ Persisted(sent[i].key)
              /\ LastOfKey(i) => file[1].alerts[sent[i].key].sent_at = sent[i].at
              /\ file[1].alerts[sent[i].key] = state.alerts[sent[i].key]

\* C8's case: in the first pass a send succeeded, and the record is in the
\* state file while entries of the pass are still to be evaluated (the
\* end-of-pass save has not run yet).
C8_Witness ==
    /\ passes = 1
    /\ pc = "evaluate"
    /\ sent # <<>>
    /\ Persisted(sent[Len(sent)].key)
    /\ file[1].alerts[sent[Len(sent)].key].sent_at = sent[Len(sent)].at

(* C9: a send that fails leaves _maybe_notify, the pass and the loop of run *)
(* at once: the next thing run does is its finally clause, with the state   *)
(* as it was (no AlertRecord for the key) and the entries that were left    *)
(* not evaluated; after that no pass starts, nothing is sent or recorded,   *)
(* and the finally clause writes the in-memory state to the state file      *)
(* (all this in the process of the failed send).                            *)
C9_SendFailureEndsRun ==
    [][ /\ (pc = "send" /\ sent' = sent /\ exc' # "interrupt") =>
              /\ pc' = "finally"
              /\ exc' = "notify"
              /\ state' = state
              /\ file' = file
              /\ passes' = passes
              /\ left' = Len(best) - k
        /\ (exc = "notify" /\ restarts' = restarts) =>
              /\ pc = "finally"
              /\ pc' = "done"
              /\ exc' = "notify"
              /\ state' = state
              /\ sent' = sent
              /\ passes' = passes
              /\ file' = <<save_state(state)>> ]_vars

\* C9's case: the run has ended on a failed send that left entries of the
\* pass not evaluated, in a run that was to go on with further passes, and
\* the state file holds the in-memory state.
C9_Witness ==
    /\ pc = "done"
    /\ exc = "notify"
    /\ left > 0
    /\ ~once
    /\ passes < MaxPasses
    /\ state.entries # EmptyMap
    /\ file = <<save_state(state)>>

(* C10: when run has terminated (normally in single-pass mode, on an        *)
(* interrupt, or on a login, fetch or notification error), the state file   *)
(* equals the in-memory state; it also does at the end of every pass (in    *)
(* the sleep that follows it, or on the way out in single-pass mode).       *)
C10_PersistedOnExit ==
    /\ pc = "done" => file = <<save_state(state)>>
    /\ pc = "sleep" => file = <<save_state(state)>>
    /\ (pc = "finally" /\ exc = "none") => file = <<save_state(state)>>

\* C10's case: the run was interrupted in its first pass after entries were
\* recorded and before anything had been written to the state file in the
\* pass; the state file holds them.
C10_Witness ==
    /\ pc = "done"
    /\ exc = "interrupt"
    /\ passes = 1
    /\ ~once
    /\ sent = <<>>
    /\ state.entries # EmptyMap
    /\ file = <<save_state(state)>>

\* The errors the retry loop is for: a time-out, a connection error, a 5xx or
\* a 429 response.
IsTransient(r) ==
    \/ r.error \in {"Timeout", "ConnectionError"}
    \/ (r.error = "none" /\ (r.status >= 500 \/ r.status = 429))

\* The exception an outcome stands for.
ErrorOf(r) ==
    IF r.error # "none" THEN Exception(r.error, 0) ELSE Exception("HTTPError", r.status)

(* C11: a fetch makes at most max_retries HTTP attempts; a successful       *)
(* attempt is the last one and fetch returns with it; when the last allowed *)
(* attempt fails with a transient error, fetch raises that error.           *)
C11_TransientRetried ==
    /\ Len(responses) <= max_retries
    /\ \A i \in DOMAIN responses :
          (responses[i].error = "none" /\ responses[i].status < 400) =>
              (i = Len(responses) /\ fpc = "returned")
    /\ \A i \in DOMAIN responses :
          (IsTransient(responses[i]) /\ i < max_retries) =>
              (i < Len(responses) \/ fpc = "attempt")
    /\ (Len(responses) = max_retries /\ max_retries > 0
          /\ IsTransient(responses[Len(responses)])) =>
              (fpc = "raised" /\ raised = <<ErrorOf(responses[Len(responses)])>>)

(* C12: a 4xx response other than 429 is never followed by another attempt, *)
(* at whatever attempt it comes and whatever max_retries is: fetch raises   *)
(* the HTTPError of that response at once.                                  *)
C12_PermanentNotRetried ==
    \A i \in DOMAIN responses :
        (/\ responses[i].error = "none"
         /\ 400 <= responses[i].status /\ responses[i].status < 500
         /\ responses[i].status # 429) =>
            /\ i = Len(responses)
            /\ fpc = "raised"
            /\ raised = <<Exception("HTTPError", responses[i].status)>>

\* C12's case: a 404 on the second of three allowed attempts ended the fetch.
C12_Witness ==
    /\ max_retries = 3
    /\ Len(responses) = 2
    /\ responses[2] = [error |-> "none", status |-> 404]
    /\ fpc = "raised"

\* The previous PositionState read for the entry last evaluated was None.
LastWasNew == previous_state = <<>>

(* C13: load_state never raises on a missing or malformed state file (the   *)
(* process never ends in Watcher.__init__), and in the first pass of a      *)
(* process that found no usable state file every entry evaluated is new.    *)
C13_LoadNeverRaises ==
    /\ pc # "crashed"
    /\ (restarts = 0 /\ passes = 1) =>
          /\ pc \in {"notify", "send", "record_alert", "save_alert"} => LastWasNew
          /\ (pc \in {"evaluate", "save"} /\ k > 1) => LastWasNew

\* The state file holds, for every entry selected in this pass, a
\* PositionState with the rank, page, shift, date and raw text of the entry:
\* it is the document a pass over the same pages leaves.
FileHolds == IsDocument(file) /\ \A j \in DOMAIN best : Holds(file[1], best[j])

\* The PositionStates of st without their updated_at.
Positions(st) ==
    [label \in DOMAIN st.entries |->
        [target \in DOMAIN st.entries[label] |->
            [rank |-> st.entries[label][target].rank,
             page |-> st.entries[label][target].page,
             shift |-> st.entries[label][target].shift,
             date |-> st.entries[label][target].date,
             raw |-> st.entries[label][target].raw]]]

(* C15 as stated: in a pass over the pages that gave the persisted state    *)
(* (reloaded or not), no entry is dispatched, so nothing is sent, and the   *)
(* PositionStates are left as they are.                                     *)
C15_IdempotentRestart ==
    [][ (pc = "evaluate" /\ FileHolds /\ exc' = "none") =>
           /\ pc' \in {"evaluate", "save"}
           /\ sent' = sent
           /\ state'.entries = state.entries ]_vars

(* C15, amended: in a pass over the pages that gave the persisted state, no *)
(* entry is dispatched, nothing is sent, no AlertRecord changes, and every  *)
(* PositionState keeps its rank, page, shift, date and raw text; only its   *)
(* updated_at is set to the time of the pass.                               *)
C15_IdempotentPositions ==
    [][ (pc = "evaluate" /\ FileHolds /\ exc' = "none") =>
           /\ pc' \in {"evaluate", "save"}
           /\ sent' = sent
           /\ state'.alerts = state.alerts
           /\ Positions(state') = Positions(state)
           /\ state'.entries[best[k].label][best[k].target].updated_at = now ]_vars

\* C15's case: a process started again on the state file of a completed pass
\* has evaluated the same selection: nothing was sent, the positions are
\* those of the file, and the updated_at of an entry has moved.
C15_Witness ==
    /\ restarts = 1
    /\ pc = "save"
    /\ best # <<>>
    /\ FileHolds
    /\ sent = <<>>
    /\ Positions(state) = Positions(file[1])
    /\ state.entries # file[1].entries

\* What a reader of the state file gets.
Observed == files[state_file]

\* C14: at every point of save_state, a crash or a failure at any step
\* included, the state file holds either the whole document it held when
\* save_state was called or the whole new document, never a part of one.
C14_AtomicReplace ==
    /\ Observed # <<>> => \E st \in SavedStates : Observed[1] = dump(save_state(st))
    /\ spc # "idle" => Observed = held
    /\ spc = "idle" => (Observed = held \/ Observed = <<dump(save_state(saving))>>)

\* C14 happens: the new text is half written, after an earlier call was cut
\* short, and the state file still holds the previous document.
C14_Witness ==
    /\ spc = "dump" /\ saves > 0
    /\ Len(files[tmp_path(state_file)][1]) = 2
    /\ Observed = held /\ held # <<>> /\ Observed[1] # dump(save_state(saving))

\* The tier the rank and the two thresholds give, first match first.
FirstMatch(rank) ==
    CASE rank <= top_threshold -> "top"
      [] rank > top_threshold /\ rank <= warn_threshold -> "warn"
      [] rank > top_threshold /\ rank > warn_threshold -> "update"

\* The template configured for a tier, "" when there is none.
Configured(tier) ==
    IF discord = <<>> THEN ""
    ELSE IF tier = "top" THEN discord[1].top_template
    ELSE IF tier = "warn" THEN discord[1].warn_template
    ELSE discord[1].update_template

\* C16: the tier of a record is the first match on its rank (rank <=
\* top_threshold: top; else rank <= warn_threshold: warn; else update),
\* whatever its classification; the alert key carries that tier and the send
\* goes ahead exactly when that tier's template is configured and the cooldown
\* of that key allows it.
C16_TierFirstMatch ==
    [][ (pc = "notify" /\ exc' = "none") =>
          LET entry == best[k]
              tier == FirstMatch(entry.rank)
              akey == <<entry.label, entry.target, Str(entry.date), Str(entry.shift), tier>>
          IN  /\ pc' = "send" => key' = akey
              /\ pc' = "send" <=>
                    /\ discord # <<>>
                    /\ Configured(tier) # ""
                    /\ should_alert(state, akey, cooldown_minutes, now) ]_vars

\* C16 happens: a record whose position changed, of rank within
\* top_threshold, is about to be sent under a key of tier top.
C16_Witness ==
    /\ pc = "send" /\ previous_state # <<>>
    /\ best[k].rank <= top_threshold /\ key[5] = "top"

\* C17: after a pass that took d seconds the loop sleeps
\* max(sleep_seconds - d, 0) seconds, never a negative time, so that two
\* consecutive passes start max(sleep_seconds, d) seconds apart; in
\* single-pass mode the loop is left after one pass and nothing is slept.
C17_InterPassTiming ==
    /\ sleep_time >= 0
    /\ \A i \in DOMAIN sleeps :
          /\ sleeps[i] >= 0
          /\ sleeps[i] = IF sleep_seconds > durations[i]
                         THEN sleep_seconds - durations[i] ELSE 0
    /\ \A i \in DOMAIN starts :
          i > 1 => starts[i] - starts[i - 1] =
                      IF sleep_seconds >= durations[i - 1]
                      THEN sleep_seconds ELSE durations[i - 1]
    /\ once => (Len(starts) <= 1 /\ sleeps = <<>>)
    /\ (once /\ Len(durations) = 1) => tpc \in {"once", "exit"}
    /\ tpc = "exit" => (once /\ Len(starts) = 1)

\* C17 happens: a pass longer than the interval was followed by no sleep at
\* all, a shorter one by the rest of the interval, and a third pass started.
C17_Witness ==
    /\ Len(starts) = 3
    /\ durations[1] > sleep_seconds /\ sleeps[1] = 0
    /\ durations[2] > 0 /\ durations[2] < sleep_seconds /\ sleeps[2] > 0

\* The content c was fetched earlier in the pass under the label of list i.
FetchedUnder(i, c) ==
    \E j \in ListsOf(paired_label(watch.list_labels, i)) : c \in Range(fetched[j])

\* C18: in one pass at most page_limit pages, indices 0 .. page_limit - 1,
\* are fetched per list; when the page that reaches the ceiling is not a
\* repeat, nothing is raised: its records are kept and the pass goes on with
\* the next list, and after the last list with the handling of the entries.
C18_PageCeiling ==
    [][ /\ \A i \in 1..NLists : Len(fetched'[i]) <= watch.page_limit
        /\ pc' = "fetch" => page' < watch.page_limit
        /\ (pc = "fetch" /\ Len(fetched'[li]) = Len(fetched[li]) + 1
               /\ Len(fetched'[li]) = watch.page_limit
               /\ ~FetchedUnder(li, fetched'[li][watch.page_limit])) =>
              /\ exc' = "none"
              /\ page = watch.page_limit - 1
              /\ new_entries' = new_entries
                     \o parse_entries(extract_lines(fetched'[li][watch.page_limit]),
                                      paired_label(watch.list_labels, li), page)
              /\ li' = li + 1 /\ page' = 0
              /\ pc' = IF li < NLists THEN "fetch" ELSE "handle" ]_vars

\* C18 happens: the first of two lists stopped at its ceiling of two pages
\* with no repeat, the second list was fetched and the pass is at the
\* handling of its entries.
C18_Witness ==
    /\ NLists = 2 /\ watch.page_limit = 2 /\ pc = "handle" /\ exc = "none"
    /\ Len(fetched[1]) = 2 /\ fetched[1][1] # fetched[1][2]
    /\ Len(fetched[2]) >= 1

\* C19: passes are strictly sequential: when a pass after the first starts,
\* and so before any of its fetches, the save_state that ends the pass before
\* it is over: the state file holds the whole state that pass left.
C19_SequentialPasses ==
    [][ /\ (passes' # passes) =>
              /\ passes' = passes + 1
              /\ pc = "start" /\ pc' \in {"fetch", "handle"}
              /\ passes >= 1 => file = <<save_state(state)>>
        /\ (pc' = "fetch" /\ pc # "fetch") => (passes' = passes + 1 /\ pc = "start")
        /\ (pc' = "start" /\ pc \notin {"start", "login"}) =>
              (pc = "sleep" /\ file = <<save_state(state)>>) ]_vars

\* C19 happens: the second pass of a process is at its first fetch, the
\* positions and the alert of the first pass being in the state file.
C19_Witness ==
    /\ passes = 2 /\ restarts = 0 /\ pc = "fetch" /\ fetched[1] = <<>>
    /\ file = <<save_state(state)>> /\ sent # <<>>

\* The notifier is configured and the tier of entry has no template.
NoTemplateFor(entry) == discord # <<>> /\ Configured(FirstMatch(entry.rank)) = ""

\* C20: when no template is configured for the tier of a record, the
\* dispatcher returns without a word: nothing is sent, no AlertRecord is made
\* or changed, nothing is raised, and the pass goes on with the next target
\* (with the end-of-pass save after the last one); the PositionState of the
\* record has been overwritten all the same.
C20_MissingTemplateSkips ==
    [][ (pc = "notify" /\ NoTemplateFor(best[k]) /\ exc' = "none") =>
          /\ pc' = IF k < Len(best) THEN "evaluate" ELSE "save"
          /\ k' = k + 1
          /\ sent' = sent
          /\ state' = state
          /\ file' = file
          /\ Holds(state, best[k]) ]_vars

\* C20 happens: the first record of a first pass, new and of a tier without
\* template, was skipped; its position is in the State, no alert exists and
\* the second record is under evaluation.
C20_Witness ==
    /\ passes = 1 /\ restarts = 0 /\ pc = "evaluate" /\ k = 2
    /\ NoTemplateFor(best[1]) /\ Holds(state, best[1])
    /\ sent = <<>> /\ state.alerts = EmptyMap

\* The alerts hold no AlertRecord of the send that failed: none under its
\* key, or one of an earlier send whose cooldown was over at the attempt.
NoRecordOfLost(alerts) ==
    \/ lost[1].key \notin DOMAIN alerts
    \/ alerts[lost[1].key].sent_at + cooldown_minutes <= lost[1].at

\* The state file holds the position of the entry whose send failed and no
\* AlertRecord of that send.
LostOnDisk ==
    /\ lost # <<>> /\ IsDocument(file)
    /\ Holds(file[1], lost[1].entry)
    /\ NoRecordOfLost(file[1].alerts)

\* C21: the PositionState is overwritten before the send is attempted: when
\* the send of a new or changed record fails, the State keeps the new
\* position and gets no AlertRecord (its alerts are as they were, with
\* nothing under the key but, at most, the record of an earlier send whose
\* cooldown was over), and that is what the finally clause writes to the
\* state file; when a process started again on that file meets the same
\* record, it is classified unchanged and nothing is sent: the alert is lost.
C21_LostAlert ==
    [][ /\ (pc = "send" /\ exc' = "notify") =>
              /\ state' = state
              /\ Holds(state', best[k])
              /\ lost' = <<[entry |-> best[k], key |-> key, at |-> now]>>
              /\ \/ key \notin DOMAIN state'.alerts
                 \/ state'.alerts[key].sent_at + cooldown_minutes <= now
        /\ (pc = "finally" /\ exc = "notify" /\ pc' = "done") => LostOnDisk'
        /\ (pc = "evaluate" /\ restarts >= 1 /\ lost # <<>> /\ exc' = "none"
               /\ best[k] = lost[1].entry /\ Holds(state, lost[1].entry)) =>
              /\ pc' \in {"evaluate", "save"}
              /\ sent' = sent
              /\ state'.alerts = state.alerts ]_vars

\* C21 happens: the process was started again after a failed send, the pass
\* over the same page has evaluated the record of that send, nothing was sent
\* and there is no AlertRecord under its key.
C21_Witness ==
    /\ restarts = 1 /\ lost # <<>> /\ pc \in {"evaluate", "save"} /\ k > 1
    /\ best[k - 1] = lost[1].entry
    /\ sent = <<>> /\ lost[1].key \notin DOMAIN state.alerts
    /\ LostOnDisk

\* The State is the one the process had before its current pass: the one the
\* state file holds (written at the end of the pass before, or loaded from),
\* or the empty State when there is no usable state file.
AsBeforePass ==
    IF IsDocument(file) THEN file[1] = save_state(state) ELSE state = EmptyState

\* C22: a fetch failure anywhere in a pass discards the records collected
\* earlier in the pass: while the lists are paginated, and when fetch raises,
\* no PositionState and no AlertRecord is changed and nothing is sent, so the
\* State at the failure is the State before the pass, and that is what the
\* finally clause persists.
C22_FetchFailureDiscards ==
    [][ /\ pc = "fetch" => (state' = state /\ sent' = sent /\ file' = file)
        /\ (pc = "fetch" /\ exc' = "fetch") =>
              (pc' = "finally" /\ discarded' = new_entries /\ AsBeforePass')
        /\ (pc = "finally" /\ exc = "fetch") =>
              /\ AsBeforePass
              /\ state' = state /\ sent' = sent
              /\ file' = <<save_state(state)>> ]_vars

\* C22 happens: the second pass of a process had collected a record that
\* differs from the position of its target when a fetch raised; the run is
\* over and the state file holds the positions of the first pass.
C22_Witness ==
    /\ pc = "done" /\ exc = "fetch" /\ passes = 2 /\ restarts = 0
    /\ \E i \in DOMAIN discarded :
          /\ discarded[i].label \in DOMAIN state.entries
          /\ discarded[i].target \in DOMAIN state.entries[discarded[i].label]
          /\ state.entries[discarded[i].label][discarded[i].target].rank
                > discarded[i].rank
    /\ file = <<save_state(state)>>

\* The pair (label, target) is the one of the entry under evaluation.
UnderEvaluation(label, target) ==
    pc = "evaluate" /\ best[k].label = label /\ best[k].target = target

\* C23: a (list, target) pair with no record in a pass keeps its
\* PositionState as it is, neither removed nor altered (only the evaluation
\* of a record of the pair writes it), and no alert goes out for it (a send
\* is always for the record under evaluation); a record that comes back with
\* the rank, page, shift and date of the stale PositionState is classified
\* unchanged: nothing is sent for it.
C23_StalePositionKept ==
    [][ /\ \A label \in DOMAIN state.entries :
              \A target \in DOMAIN state.entries[label] :
                 ~UnderEvaluation(label, target) =>
                    /\ label \in DOMAIN state'.entries
                    /\ target \in DOMAIN state'.entries[label]
                    /\ state'.entries[label][target] = state.entries[label][target]
        /\ (pc' = "send" /\ pc # "send") =>
              (pc = "notify" /\ key'[1] = best[k].label /\ key'[2] = best[k].target)
        /\ Len(sent') > Len(sent) =>
              (pc = "send" /\ sent' = Append(sent, sent'[Len(sent')])
                 /\ sent'[Len(sent')].key = key)
        /\ (pc = "evaluate" /\ exc' = "none"
               /\ best[k].label \in DOMAIN state.entries
               /\ best[k].target \in DOMAIN state.entries[best[k].label]
               /\ LET stale == state.entries[best[k].label][best[k].target]
                  IN  /\ stale.rank = best[k].rank /\ stale.page = best[k].page
                      /\ stale.shift = best[k].shift /\ stale.date = best[k].date) =>
              /\ pc' \in {"evaluate", "save"}
              /\ sent' = sent
              /\ state'.alerts = state.alerts ]_vars

\* C23 happens: T2, recorded by an earlier run, had no record in the first
\* pass (at time 1 or later, which moved T1) and no alert; in the second pass
\* it came back as it was recorded and the evaluation went past it, its
\* PositionState still the one of time 0 until then.
C23_Witness ==
    /\ passes = 2 /\ restarts = 0 /\ pc = "evaluate" /\ k = 2
    /\ best[1].target = "T2"
    /\ previous_state # <<>> /\ previous_state[1].updated_at = 0
    /\ previous_state[1].rank = best[1].rank
    /\ state.entries["A"]["T1"].updated_at >= 1
    /\ \A i \in DOMAIN sent : sent[i].key[2] # "T2"
    /\ \A akey \in DOMAIN state.alerts : akey[2] # "T2"

\* The labels of the records r.
LabelsOf(r) == {r[i].label : i \in DOMAIN r}

\* C24: the fingerprints of the pages seen are kept per list label and per
\* pass. A page stops the pagination of its list, unparsed, exactly when its
\* content was fetched before in the same pass on a list with the same label
\* (that list itself, or another one sharing the label); content seen under
\* another label or in an earlier pass does not count: the page is parsed and
\* the pagination goes on up to the ceiling. A pass starts with nothing
\* seen, and page 0 of every list is fetched in every pass.
C24_FingerprintScope ==
    [][ /\ (pc = "fetch" /\ Len(fetched'[li]) = Len(fetched[li]) + 1) =>
              LET content == fetched'[li][Len(fetched'[li])]
                  label == paired_label(watch.list_labels, li)
              IN  /\ Len(fetched[li]) = page
                  /\ FetchedUnder(li, content) =>
                        (new_entries' = new_entries /\ li' = li + 1)
                  /\ ~FetchedUnder(li, content) =>
                        /\ new_entries' = new_entries
                               \o parse_entries(extract_lines(content), label, page)
                        /\ page + 1 < watch.page_limit =>
                              (pc' = "fetch" /\ li' = li /\ page' = page + 1)
        /\ passes' = passes + 1 =>
              /\ seen_pages' = EmptyMap
              /\ \A i \in 1..NLists : fetched'[i] = <<>>
              /\ watch.page_limit > 0 => (pc' = "fetch" /\ li' = 1 /\ page' = 0)
        /\ (pc = "fetch" /\ pc' = "handle") =>
              \A i \in 1..NLists : Len(fetched'[i]) >= 1 ]_vars

\* C24 happens: in the second pass of a process two lists with different
\* labels returned the page the first pass had seen on both; both pages were
\* parsed and the pass is at the handling of their records.
C24_Witness ==
    /\ passes = 2 /\ restarts = 0 /\ pc = "handle" /\ NLists = 2
    /\ paired_label(watch.list_labels, 1) # paired_label(watch.list_labels, 2)
    /\ fetched[1] = fetched[2] /\ Len(fetched[1]) = 1
    /\ Cardinality(LabelsOf(new_entries)) = 2
    /\ \A i \in DOMAIN new_entries : Holds(state, new_entries[i])

\* The process before, which had no notifier, left the record entry as the
\* position of its pair.
SeenWhileDisabled(entry) ==
    silent # <<>> /\ Holds([entries |-> silent[1], alerts |-> EmptyMap], entry)

\* C25: with no notifier configured a pass sends nothing and makes or changes
\* no AlertRecord, yet every selected record overwrites its PositionState;
\* so when the process is started again with a notifier, a record that is
\* still at the position first recorded while there was none is classified
\* unchanged and gets no alert.
C25_DisabledStillRecords ==
    [][ /\ discord = <<>> =>
              /\ pc' # "send" /\ Len(sent') <= Len(sent) /\ sent = <<>>
              /\ state'.alerts = state.alerts /\ state.alerts = EmptyMap
        /\ (discord = <<>> /\ pc = "evaluate" /\ exc' = "none") =>
              Holds(state', best[k])
        /\ (discord = <<>> /\ pc = "notify" /\ exc' = "none") =>
              (pc' \in {"evaluate", "save"} /\ state' = state /\ Holds(state, best[k]))
        /\ (discord = <<>> /\ discord' # <<>>) =>
              /\ pc \in {"done", "crashed"} /\ restarts' = restarts + 1
              /\ silent' = <<state.entries>>
              /\ state'.entries = state.entries /\ state'.alerts = EmptyMap
        /\ (discord # <<>> /\ pc = "evaluate" /\ exc' = "none"
               /\ SeenWhileDisabled(best[k]) /\ Holds(state, best[k])) =>
              /\ pc' \in {"evaluate", "save"}
              /\ sent' = sent
              /\ state'.alerts = state.alerts ]_vars

\* C25 happens: a process with a notifier and a template for the record's
\* tier, started on the state file of a process without notifier, has
\* evaluated a record first recorded by that process: nothing was sent and no
\* AlertRecord exists.
C25_Witness ==
    /\ restarts = 1 /\ discord # <<>> /\ pc \in {"evaluate", "save"} /\ k > 1
    /\ SeenWhileDisabled(best[k - 1])
    /\ Configured(FirstMatch(best[k - 1].rank)) # ""
    /\ sent = <<>> /\ state.alerts = EmptyMap

====
